---- MODULE Spec2Model ----
(***************************************************************************)
(* BigDataSmallPrice: collectors, validation, idempotent upserts and the   *)
(* chronological feature export, modelled from the Python sources.         *)
(*                                                                         *)
(*   Spec        the four ETL tasks of bdsp_etl_daily over the four tables *)
(*   SpecRun     BaseCollector.run() over arbitrary parse() results        *)
(*   SpecSplit   split_chronological as a function of (df, test_ratio)     *)
(*   SpecExport  run_export, stage by stage                                *)
(*   SpecFetch   the fetch transport, GET by GET                           *)
(*   SpecLeakage validate_no_leakage as a function of its arguments        *)
(*   SpecUnit    _bulk_execute inside get_conn, statement by statement     *)
(*   SpecPool    concurrent units of work on the connection pool           *)
(*   SpecTasks   the four ETL tasks of one DAG run, interleaved            *)
(*   SpecBafu    BafuCollector.parse as a function of the payload          *)
(*   SpecEntsoe  EntsoeCollector.parse as a function of the document       *)
(*   SpecAscending  validate_ascending_timestamps on a time column         *)
(*   SpecInstances  get_pool / get_conn, thread by thread, pool by pool    *)
(***************************************************************************)
EXTENDS Integers, Sequences, FiniteSets, Bags, TLC

VARIABLES
    \* ---- persistence and ETL tasks (timescale_client.py, etl_pipeline_dag.py)
    table,        \* [source -> bag of the stored rows]
    pool,         \* the module global _pool: "none" or "open"
    task,         \* [source -> position of the task in fetch/parse/validate/upsert]
    raw,          \* [source -> payload returned by fetch()]
    records,      \* [source -> list returned by parse()]
    inserted,     \* [source -> row count the upsert of the current task run returned]
    upserts,      \* [source -> number of consecutive successful upserts of one record list]
    last_batch,   \* [source -> the record list of the last successful upsert]
    runs,         \* task runs started so far
    \* ---- BaseCollector.run() on its own
    run_pc,       \* "init", "fetched", "parsed", "returned", "raised"
    run_records,  \* what parse() produced
    run_result,   \* what run() returned
    run_error,    \* the exception run() raised
    run_calls,    \* the calls run() has made, in order
    \* ---- export pipeline (export_pipeline.py)
    feature_cols, \* the declared feature column list
    view,         \* rows of training_features, as ORDER BY time returns them
    df,           \* the queried frame
    test_ratio,   \* numerator of the decimal ratio test_ratio / RatioDen
    stage,        \* position of run_export / of the split call
    trace,        \* stages executed so far in this run, in order
    train_df,
    test_df,
    files,        \* artifact files written by this run
    error,        \* error raised by this run
    exports,      \* export runs started so far
    \* ---- validate_no_leakage on its own
    target_col,   \* the target column name passed in
    \* ---- fetch transport (BaseCollector._fetch_with_retry)
    attempt,      \* the loop variable of range(max_retries)
    gets,         \* GET requests issued by the call
    slept,        \* the durations passed to time.sleep, in order
    responses,    \* the responses received, in order
    fetch_pc,     \* "loop", "exhausted", "returned", "raised"
    fetch_error,  \* the exception the call raised
    \* ---- one unit of work: _bulk_execute inside get_conn (timescale_client.py)
    unit_pc,      \* "call", "body", "commit", "except", "finally", "returned", "raised"
    unit_table,   \* the committed rows of the table, as every session sees them
    unit_batch,   \* the record list passed to the call
    before,       \* the committed rows when the call began
    tx,           \* the rows as the transaction of the checked-out connection sees them
    done,         \* statements of executemany executed so far
    rowcount,     \* cur.rowcount, as executemany has accumulated it so far
    conn_calls,   \* getconn / commit / rollback / putconn issued by the call, in order
    unit_error,   \* the exception in flight or raised by the call
    unit_result,  \* the row count the call returns (-1: none)
    calls,        \* calls started so far
    \* ---- concurrent units of work on the pool
    holder,       \* [unit -> "idle", "out" (holds a connection), "refused"]
    \* ---- the pool instances behind get_pool / get_conn, thread by thread
    pool_ref,     \* the module global _pool: 0 (None) or the number of an instance
    instances,    \* the pool instances constructed so far, each "live" or "closed"
    thread,       \* [thread -> its position in get_conn and what it holds]
    \* ---- one call of a collector's parse(), of a transformer
    parse_raw,    \* the argument of the call
    parsed,       \* what the call returned
    parse_pc      \* "call", "returned", "raised"

etlVars == <<table, pool, task, raw, records, inserted, upserts, last_batch, runs>>
runVars == <<run_pc, run_records, run_result, run_error, run_calls>>
exportVars == <<feature_cols, view, df, test_ratio, stage, trace, train_df, test_df,
                files, error, exports>>
fetchVars == <<attempt, gets, slept, responses, fetch_pc, fetch_error>>
unitVars == <<unit_pc, unit_table, unit_batch, before, tx, done, rowcount, conn_calls,
              unit_error, unit_result, calls>>
instanceVars == <<pool_ref, instances, thread>>
parseVars == <<parse_raw, parsed, parse_pc>>
sideVars == <<target_col, fetchVars, unitVars, holder, instanceVars, parseVars>>
vars == <<etlVars, runVars, exportVars, sideVars>>

-----------------------------------------------------------------------------
(* Bounds of the exploration *)

MaxRows == 10     \* rows in a frame handed to split_chronological
MaxTime == 3      \* distinct timestamps of feature rows
RatioDen == 10    \* ratios are the decimals num/RatioDen, num in -1..RatioDen+1
MaxViewRows == 3  \* rows of the training_features view in an export run
MaxExports == 2   \* export runs the orchestrator starts
MaxEntries == 2   \* entries of a fetched payload, records of a parse() result
MaxRuns == 2      \* ETL task runs the scheduler starts
MaxCols == 3      \* length of a feature column list handed to validate_no_leakage
MaxCalls == 2     \* calls of _bulk_execute in a row
MaxUnits == 11    \* concurrent units of work
MaxPayload == 4   \* entries of a hydro payload
MaxSeries == 2    \* TimeSeries elements of a price document
MaxColumn == 4    \* rows of a frame handed to validate_ascending_timestamps
MaxThreads == 2   \* threads of one process inside get_conn
MaxPools == 3     \* pool instances constructed in a behaviour

-----------------------------------------------------------------------------
(* Values of the variables a specification does not use *)

TasksUnused ==
    /\ table = <<>> /\ task = <<>> /\ raw = <<>> /\ records = <<>>
    /\ inserted = <<>> /\ upserts = <<>> /\ last_batch = <<>> /\ runs = 0

EtlUnused == TasksUnused /\ pool = "none"

RunUnused ==
    /\ run_pc = "init" /\ run_records = <<>> /\ run_result = <<>> /\ run_error = ""
    /\ run_calls = <<>>

ExportUnused ==
    /\ feature_cols = <<>> /\ view = <<>> /\ df = <<>> /\ test_ratio = 0
    /\ stage = "unused" /\ trace = <<>> /\ train_df = <<>> /\ test_df = <<>>
    /\ files = {} /\ error = "" /\ exports = 0

FetchUnused ==
    /\ attempt = 0 /\ gets = 0 /\ slept = <<>> /\ responses = <<>>
    /\ fetch_pc = "unused" /\ fetch_error = ""

UnitUnused ==
    /\ unit_pc = "unused" /\ unit_table = <<>> /\ unit_batch = <<>> /\ before = <<>>
    /\ tx = <<>> /\ done = 0 /\ rowcount = 0 /\ conn_calls = <<>> /\ unit_error = ""
    /\ unit_result = 0 /\ calls = 0

PoolUnused == holder = <<>>

InstancesUnused == pool_ref = 0 /\ instances = <<>> /\ thread = <<>>

ParseUnused == parse_raw = <<>> /\ parsed = <<>> /\ parse_pc = "unused"

SideUnused ==
    /\ target_col = "" /\ FetchUnused /\ UnitUnused /\ PoolUnused /\ InstancesUnused
    /\ ParseUnused

-----------------------------------------------------------------------------
(* Timestamps and records *)

Hours == {0, 1}                 \* wall-clock hours that payloads mention
Positions == {1, 2}             \* 1-based Point positions of the price feed
Values == {1, 2}                \* measured values (prices, flows, ...)
NoValue == 0 - 1                \* a tariff entry without a CHF_kWh component
Zones == {"", "Z", "+01:00"}    \* UTC designator / offset suffix of an ISO-8601 string

\* a datetime: naive, or aware with a UTC offset in hours
Naive(wall) == [kind |-> "naive", wall |-> wall, off |-> 0]
Aware(wall, off) == [kind |-> "aware", wall |-> wall, off |-> off]
\* a record without a time key, and a time that is no datetime (a string)
NoTime == [kind |-> "missing", wall |-> 0, off |-> 0]
NotDatetime(wall) == [kind |-> "str", wall |-> wall, off |-> 0]

\* ts.replace("Z", "+00:00")
ReplaceZ(zone) == IF zone = "Z" THEN "+00:00" ELSE zone

\* datetime.fromisoformat: no suffix gives a naive datetime, an offset an aware one
FromIsoFormat(wall, zone) ==
    CASE zone = "" -> Naive(wall)
      [] zone = "+00:00" -> Aware(wall, 0)
      [] zone = "+01:00" -> Aware(wall, 1)

\* dt.replace(tzinfo=timezone.utc): the wall clock is kept, the zone is set
ReplaceTzUtc(dt) == Aware(dt.wall, 0)

\* ekz_collector._parse_timestamp
ParseTimestamp(wall, zone) ==
    LET dt == FromIsoFormat(wall, ReplaceZ(zone))
    IN  IF dt.kind = "naive" THEN ReplaceTzUtc(dt) ELSE dt

\* the instant a stored timestamp denotes (hours since the epoch, UTC)
Instant(t) == t.wall - t.off

-----------------------------------------------------------------------------
(* BaseCollector._validate and BaseCollector.run *)

RECURSIVE ValidateFrom(_, _)
ValidateFrom(recs, i) ==
    IF i > Len(recs) THEN ""
    ELSE LET t == recs[i].time
         IN  IF t.kind = "missing" THEN "ValueError"
             ELSE IF t.kind = "str" THEN "TypeError"
             ELSE IF t.kind = "naive" THEN "ValueError"
             ELSE ValidateFrom(recs, i + 1)

RECURSIVE ValidateFromNoTzCheck(_, _)
ValidateFromNoTzCheck(recs, i) ==
    IF i > Len(recs) THEN ""
    ELSE LET t == recs[i].time
         IN  IF t.kind = "missing" THEN "ValueError"
             ELSE IF t.kind = "str" THEN "TypeError"
             ELSE ValidateFromNoTzCheck(recs, i + 1)

\* _validate(records): the exception raised, "" when it returns
ValidateSkipped(recs) == ""
ValidateNoTzCheck(recs) == ValidateFromNoTzCheck(recs, 1)
ValidateOutcome(recs) == ValidateFrom(recs, 1)

-----------------------------------------------------------------------------
(* The four collectors' parse() *)

Sources == {"entsoe", "weather", "ekz", "bafu"}

\* the second natural-key column each collector fills in
SourceId(s) ==
    CASE s = "entsoe" -> "10YCH-SWISSGRIDZ"
      [] s = "weather" -> "47.5001,8.7502"
      [] s = "ekz" -> "dynamic"
      [] s = "bafu" -> "2018"

RECURSIVE SeqsUpTo(_, _)
SeqsUpTo(S, n) ==
    IF n = 0 THEN {<<>>}
    ELSE LET shorter == SeqsUpTo(S, n - 1)
         IN  shorter \cup {Append(q, x) : q \in {r \in shorter : Len(r) = n - 1}, x \in S}

\* A payload: the zone suffix its timestamps carry and its entries.  An entry
\* is (at, val): at is the Point position for the price feed, an hour for the
\* others (an epoch value for the hydro feed, which has no suffix).
\* zone "malformed" stands for a body that is no XML / JSON document.
NoPayload == [zone |-> "none", entries |-> <<>>]
Malformed == [zone |-> "malformed", entries |-> <<>>]

ZonesOf(s) ==
    CASE s = "entsoe" -> Zones
      [] s = "weather" -> {"", "+01:00"}
      [] s = "ekz" -> Zones
      [] s = "bafu" -> {""}

Payloads(s) ==
    {Malformed} \cup
    {[zone |-> z, entries |-> e] :
        z \in ZonesOf(s),
        e \in SeqsUpTo([at : IF s = "entsoe" THEN Positions ELSE Hours,
                         val : IF s = "ekz" THEN Values \cup {NoValue} ELSE Values],
                        MaxEntries)}

Record(s, t, v) == [time |-> t, id |-> SourceId(s), val |-> v]

\* EntsoeCollector.parse: one Period starting at hour 0, resolution PT60M
EntsoeParse(payload) ==
    LET interval_start == FromIsoFormat(0, ReplaceZ(payload.zone))
    IN  [i \in 1..Len(payload.entries) |->
            Record("entsoe",
                   [interval_start EXCEPT !.wall = @ + (payload.entries[i].at - 1)],
                   payload.entries[i].val)]

\* OpenMeteoCollector.parse
WeatherParse(payload) ==
    [i \in 1..Len(payload.entries) |->
        Record("weather",
               ReplaceTzUtc(FromIsoFormat(payload.entries[i].at, payload.zone)),
               payload.entries[i].val)]

\* EkzCollector.parse: an entry without a price is skipped
EkzParse(payload) ==
    LET priced(entry) == entry.val # NoValue
        prices == SelectSeq(payload.entries, priced)
    IN  [i \in 1..Len(prices) |->
            Record("ekz", ParseTimestamp(prices[i].at, payload.zone), prices[i].val)]

\* BafuCollector.parse: entries merged by timestamp (the last value of a
\* timestamp stays), one record per timestamp, sorted ascending by time
RECURSIVE SortedHours(_)
SortedHours(S) ==
    IF S = {} THEN <<>>
    ELSE LET m == CHOOSE x \in S : \A y \in S : x <= y
         IN  <<m>> \o SortedHours(S \ {m})

BafuParse(payload) ==
    LET e == payload.entries
        by_ts == SortedHours({e[i].at : i \in 1..Len(e)})
        lastOf(h) == CHOOSE i \in 1..Len(e) :
                        e[i].at = h /\ \A j \in (i + 1)..Len(e) : e[j].at # h
    IN  [k \in 1..Len(by_ts) |->
            Record("bafu", Aware(by_ts[k], 0), e[lastOf(by_ts[k])].val)]

\* parse(raw): the exception raised ("" when it returns) and the records
ParseOutcome(s, payload) ==
    IF payload.zone = "malformed"
    THEN [raised |-> "ParseError", records |-> <<>>]
    ELSE [raised |-> "",
          records |-> CASE s = "entsoe" -> EntsoeParse(payload)
                        [] s = "weather" -> WeatherParse(payload)
                        [] s = "ekz" -> EkzParse(payload)
                        [] s = "bafu" -> BafuParse(payload)]

-----------------------------------------------------------------------------
(* Persistence: INSERT ... ON CONFLICT (time, <id>) DO NOTHING, executemany *)

\* the row a record is stored as: a timestamptz column holds the instant
RowOf(rec) == [time |-> Instant(rec.time), id |-> rec.id, val |-> rec.val]
KeyOf(row) == <<row.time, row.id>>

\* the stored rows that carry the natural key of row
SameKey(rows, row) == {r \in BagToSet(rows) : KeyOf(r) = KeyOf(row)}

Conflicts(rows, row) == SameKey(rows, row) # {}

\* rows without the rows in the set gone
Without(rows, gone) == [r \in BagToSet(rows) \ gone |-> rows[r]]

\* one INSERT of the batch
InsertPlain(rows, rec) == rows (+) SetToBag({RowOf(rec)})
InsertOnConflictUpdate(rows, rec) ==
    Without(rows, SameKey(rows, RowOf(rec))) (+) SetToBag({RowOf(rec)})
InsertOnConflictDoNothing(rows, rec) ==
    IF Conflicts(rows, RowOf(rec)) THEN rows ELSE rows (+) SetToBag({RowOf(rec)})

\* the table the INSERT of each upsert_<source> names
TableOfShared(s) == "entsoe"
TableOf(s) == s

\* if not records: the guard of _bulk_execute
NotRecordsNever(recs) == FALSE
NotRecords(recs) == Len(recs) = 0

\* the row count of one INSERT: the rows it inserted
StatementRowCount(rows, rec) == IF Conflicts(rows, RowOf(rec)) THEN 0 ELSE 1

\* cur.rowcount over executemany: the driver adds up the statements' row counts
RowCountOfLastStatement(total, statement) == statement
AccumulateRowCount(total, statement) == total + statement

\* cur.executemany(sql, records): the statements run in list order
RECURSIVE ExecuteMany(_, _, _)
ExecuteMany(rows, recs, i) ==
    IF i > Len(recs) THEN rows
    ELSE ExecuteMany(InsertOnConflictDoNothing(rows, recs[i]), recs, i + 1)

\* cur.rowcount after executemany ran the statements i.. on rows
RECURSIVE RowCountFrom(_, _, _, _)
RowCountFrom(rows, recs, i, total) ==
    IF i > Len(recs) THEN total
    ELSE RowCountFrom(InsertOnConflictDoNothing(rows, recs[i]), recs, i + 1,
                      AccumulateRowCount(total, StatementRowCount(rows, recs[i])))

\* _bulk_execute on a committed unit of work: the table after it and cur.rowcount
BulkExecute(rows, recs) ==
    [rows |-> ExecuteMany(rows, recs, 1), rowcount |-> RowCountFrom(rows, recs, 1, 0)]

-----------------------------------------------------------------------------
(* Spec: the tasks of bdsp_etl_daily.  Each task is collector.run() followed *)
(* by the upsert of its source.  The four tasks share no record, no table    *)
(* row and no statement, and a behaviour follows the runs of one of them:    *)
(* its scheduled runs and its retries.                                       *)

Resting == {"idle", "done", "fetch_failed", "parse_failed", "invalid", "upsert_failed"}

Init ==
    /\ table = [s \in Sources |-> EmptyBag]
    /\ pool = "none"
    /\ task = [s \in Sources |-> "idle"]
    /\ raw = [s \in Sources |-> NoPayload]
    /\ records = [s \in Sources |-> <<>>]
    /\ inserted = [s \in Sources |-> 0 - 1]
    /\ upserts = [s \in Sources |-> 0]
    /\ last_batch = [s \in Sources |-> <<>>]
    /\ runs = 0
    /\ RunUnused /\ ExportUnused /\ SideUnused

\* the scheduler starts the task of source s
StartTask(s) ==
    /\ task[s] \in Resting
    /\ \A u \in Sources \ {s} : task[u] = "idle"
    /\ runs < MaxRuns
    /\ runs' = runs + 1
    /\ task' = [task EXCEPT ![s] = "started"]
    /\ raw' = [raw EXCEPT ![s] = NoPayload]
    /\ records' = [records EXCEPT ![s] = <<>>]
    /\ inserted' = [inserted EXCEPT ![s] = 0 - 1]
    /\ UNCHANGED <<sideVars, table, pool, upserts, last_batch, runVars, exportVars>>

\* raw = self.fetch(), the feed answering with one of payloads
FetchFrom(s, payloads) ==
    /\ task[s] = "started"
    /\ \/ \E payload \in payloads :
             /\ raw' = [raw EXCEPT ![s] = payload]
             /\ task' = [task EXCEPT ![s] = "fetched"]
       \/ \* the transport raises (retries exhausted, non-retryable status)
          /\ task' = [task EXCEPT ![s] = "fetch_failed"]
          /\ raw' = raw
    /\ UNCHANGED <<sideVars, table, pool, records, inserted, upserts, last_batch, runs, runVars,
                   exportVars>>

Fetch(s) == FetchFrom(s, Payloads(s))

\* records = self.parse(raw)
Parse(s) ==
    /\ task[s] = "fetched"
    /\ LET out == ParseOutcome(s, raw[s])
       IN  /\ records' = [records EXCEPT ![s] = out.records]
           /\ task' = [task EXCEPT ![s] = IF out.raised = "" THEN "parsed" ELSE "parse_failed"]
           \* an exception leaves run(): its local raw is gone
           /\ raw' = [raw EXCEPT ![s] = IF out.raised = "" THEN @ ELSE NoPayload]
    /\ UNCHANGED <<sideVars, table, pool, inserted, upserts, last_batch, runs, runVars, exportVars>>

\* self._validate(records); return records: run() is left, its local raw is gone
ValidateRecords(s) ==
    /\ task[s] = "parsed"
    /\ task' = [task EXCEPT ![s] =
                   IF ValidateOutcome(records[s]) = "" THEN "validated" ELSE "invalid"]
    /\ raw' = [raw EXCEPT ![s] = NoPayload]
    /\ UNCHANGED <<sideVars, table, pool, records, inserted, upserts, last_batch, runs, runVars,
                   exportVars>>

\* inserted = upsert_<source>(records)
Upsert(s) ==
    /\ task[s] = "validated"
    /\ \/ \* not records: return 0
          /\ NotRecords(records[s])
          /\ inserted' = [inserted EXCEPT ![s] = 0]
          /\ upserts' = [upserts EXCEPT ![s] = IF last_batch[s] = <<>> THEN @ + 1 ELSE 1]
          /\ last_batch' = [last_batch EXCEPT ![s] = <<>>]
          /\ task' = [task EXCEPT ![s] = "done"]
          /\ UNCHANGED <<table, pool>>
       \/ \* the unit of work commits
          /\ ~NotRecords(records[s])
          /\ LET out == BulkExecute(table[TableOf(s)], records[s])
             IN  /\ table' = [table EXCEPT ![TableOf(s)] = out.rows]
                 /\ inserted' = [inserted EXCEPT ![s] = out.rowcount]
          /\ upserts' = [upserts EXCEPT ![s] = IF last_batch[s] = records[s] THEN @ + 1 ELSE 1]
          /\ last_batch' = [last_batch EXCEPT ![s] = records[s]]
          /\ pool' = "open"
          /\ task' = [task EXCEPT ![s] = "done"]
       \/ \* the pool, a statement or the commit fails: rollback, the error propagates
          /\ ~NotRecords(records[s])
          /\ pool' \in {pool, "open"}
          /\ upserts' = [upserts EXCEPT ![s] = 0]
          /\ last_batch' = [last_batch EXCEPT ![s] = <<>>]
          /\ task' = [task EXCEPT ![s] = "upsert_failed"]
          /\ UNCHANGED <<table, inserted>>
    /\ UNCHANGED <<sideVars, raw, records, runs, runVars, exportVars>>

Next ==
    \E s \in Sources :
        StartTask(s) \/ Fetch(s) \/ Parse(s) \/ ValidateRecords(s) \/ Upsert(s)

Spec == Init /\ [][Next]_vars

-----------------------------------------------------------------------------
(* SpecTasks: one DAG run of bdsp_etl_daily.  The four tasks have no         *)
(* dependency between them and the executor runs them in parallel: their     *)
(* steps interleave in every order.                                          *)

\* what each feed answers in the DAG run: a body that does not parse, or two
\* entries for one timestamp, with every zone suffix the feed uses
TaskPayloads(s) ==
    {Malformed} \cup
    {[zone |-> z, entries |-> <<[at |-> 1, val |-> 1], [at |-> 1, val |-> 2]>>] :
        z \in ZonesOf(s)}

\* the executor starts the task of source s; each task runs once
Schedule(s) ==
    /\ task[s] = "idle"
    /\ runs' = runs + 1
    /\ task' = [task EXCEPT ![s] = "started"]
    /\ UNCHANGED <<sideVars, table, pool, raw, records, inserted, upserts, last_batch, runVars,
                   exportVars>>

TaskFetch(s) == FetchFrom(s, TaskPayloads(s))

NextTasks ==
    \E s \in Sources :
        Schedule(s) \/ TaskFetch(s) \/ Parse(s) \/ ValidateRecords(s) \/ Upsert(s)

SpecTasks == Init /\ [][NextTasks]_vars

-----------------------------------------------------------------------------
(* SpecRun: one call of BaseCollector.run() on a collector whose parse() may *)
(* return any list of records                                                *)

RunTimes ==
    {NoTime} \cup {NotDatetime(w) : w \in Hours} \cup {Naive(w) : w \in Hours}
             \cup {Aware(w, o) : w \in Hours, o \in {0, 1}}

RecordLists == SeqsUpTo([time : RunTimes, id : {"x"}, val : {1}], MaxEntries)

InitRun ==
    /\ EtlUnused /\ ExportUnused /\ SideUnused
    /\ run_pc = "init"
    /\ run_records = <<>>
    /\ run_result = <<>>
    /\ run_error = ""
    /\ run_calls = <<>>

\* where run() is after the call made at position pc raised: run() has no
\* try, the exception leaves it
RunRetries(pc) == pc
RunRaised(pc) == "raised"

\* raw = self.fetch()
RunFetch ==
    /\ run_pc = "init"
    /\ run_calls' = Append(run_calls, "fetch")
    /\ \/ run_pc' = "fetched" /\ run_error' = run_error
       \/ run_pc' = RunRaised("init") /\ run_error' = "FetchError"
    /\ UNCHANGED <<sideVars, etlVars, exportVars, run_records, run_result>>

\* records = self.parse(raw)
RunParse ==
    /\ run_pc = "fetched"
    /\ run_calls' = Append(run_calls, "parse")
    /\ \/ \E recs \in RecordLists :
             run_pc' = "parsed" /\ run_records' = recs /\ run_error' = run_error
       \/ run_pc' = RunRaised("fetched") /\ run_error' = "ParseError"
          /\ run_records' = run_records
    /\ UNCHANGED <<sideVars, etlVars, exportVars, run_result>>

\* self._validate(records); return records
RunValidate ==
    /\ run_pc = "parsed"
    /\ run_calls' = Append(run_calls, "_validate")
    /\ LET raised == ValidateOutcome(run_records)
       IN  /\ run_error' = raised
           /\ run_pc' = IF raised = "" THEN "returned" ELSE RunRaised("parsed")
           /\ run_result' = IF raised = "" THEN run_records ELSE run_result
    /\ UNCHANGED <<sideVars, etlVars, exportVars, run_records>>

NextRun == RunFetch \/ RunParse \/ RunValidate

SpecRun == InitRun /\ [][NextRun]_vars

-----------------------------------------------------------------------------
(* IEEE-754 binary64 arithmetic, as CPython evaluates                       *)
(*     int(len(df) * (1 - test_ratio))                                      *)
(* A non-negative value x is held exactly as the natural number x * 2^Frac, *)
(* written as Limbs digits of base 2^LimbBits, least significant first.     *)
(* Every float operation is the exact result rounded to MantBits            *)
(* significant bits, ties to even.                                          *)

MantBits == 53
LimbBits == 12
FracLimbs == 6
Limbs == FracLimbs + 1
Base == 2 ^ LimbBits

Zero == [i \in 1..Limbs |-> 0]
\* the number 2^k
Pow2(k) == [i \in 1..Limbs |-> IF i = (k \div LimbBits) + 1 THEN 2 ^ (k % LimbBits) ELSE 0]
One == Pow2(FracLimbs * LimbBits)

RECURSIVE AddRec(_, _, _, _, _)
AddRec(a, b, i, c, acc) ==
    IF i > Limbs THEN acc
    ELSE LET s == a[i] + b[i] + c
         IN  AddRec(a, b, i + 1, s \div Base, Append(acc, s % Base))

\* a + b, exact
AddN(a, b) == AddRec(a, b, 1, 0, <<>>)

RECURSIVE SubRec(_, _, _, _, _)
SubRec(a, b, i, c, acc) ==
    IF i > Limbs THEN acc
    ELSE LET s == a[i] - b[i] - c
         IN  SubRec(a, b, i + 1, IF s < 0 THEN 1 ELSE 0,
                    Append(acc, IF s < 0 THEN s + Base ELSE s))

\* a - b, exact, for a >= b
SubN(a, b) == SubRec(a, b, 1, 0, <<>>)

RECURSIVE MulRec(_, _, _, _, _)
MulRec(n, a, i, c, acc) ==
    IF i > Limbs THEN acc
    ELSE LET s == n * a[i] + c
         IN  MulRec(n, a, i + 1, s \div Base, Append(acc, s % Base))

\* n * a, exact, n a small natural number
MulN(n, a) == MulRec(n, a, 1, 0, <<>>)

\* bit i of a, bit 0 the least significant
Bit(a, i) == (a[(i \div LimbBits) + 1] \div (2 ^ (i % LimbBits))) % 2

\* number of significant bits of a
BitLen(a) ==
    IF a = Zero THEN 0
    ELSE LET top == CHOOSE i \in 1..Limbs : a[i] # 0 /\ \A j \in (i + 1)..Limbs : a[j] = 0
             len == CHOOSE k \in 1..LimbBits : 2 ^ (k - 1) <= a[top] /\ a[top] < 2 ^ k
         IN  LimbBits * (top - 1) + len

\* a with its lowest k bits cleared
ClearLow(a, k) ==
    [i \in 1..Limbs |->
        IF LimbBits * i <= k THEN 0
        ELSE IF LimbBits * (i - 1) >= k THEN a[i]
        ELSE a[i] - (a[i] % (2 ^ (k - LimbBits * (i - 1))))]

\* round to nearest, ties to even, at MantBits significant bits; inexact says
\* that a itself is the truncation of a value with further non-zero bits
RoundToDouble(a, inexact) ==
    LET drop == BitLen(a) - MantBits
    IN  IF drop <= 0 THEN a
        ELSE LET guard == Bit(a, drop - 1)
                 sticky == inexact \/ \E i \in 0..(drop - 2) : Bit(a, i) = 1
                 kept == ClearLow(a, drop)
             IN  IF guard = 1 /\ (sticky \/ Bit(a, drop) = 1)
                 THEN AddN(kept, Pow2(drop))
                 ELSE kept

\* long division: the digits of floor(num * 2^Frac / den), most significant first
RECURSIVE DivRec(_, _, _, _)
DivRec(rem, den, i, acc) ==
    IF i = 0 THEN [digits |-> acc, rem |-> rem]
    ELSE DivRec((rem * Base) % den, den, i - 1, <<(rem * Base) \div den>> \o acc)

\* float("0.d"): the double nearest to num/den, for 0 < num < den
DecimalToDouble(num, den) ==
    LET d == DivRec(num, den, FracLimbs, <<>>)
    IN  RoundToDouble(d.digits \o <<0>>, d.rem # 0)

\* 1 - r in binary64
OneMinus(r) == RoundToDouble(SubN(One, r), FALSE)

\* n * x in binary64, n a small natural number
IntTimes(n, x) == RoundToDouble(MulN(n, x), FALSE)

\* int(x): truncation of a non-negative double
IntOf(x) == x[Limbs]

-----------------------------------------------------------------------------
(* split_chronological *)

Ratios == (0 - 1)..(RatioDen + 1)

\* 0 < test_ratio < 1 on the double nearest to num/RatioDen
RatioInRange(num) == 0 < num /\ num < RatioDen

\* split_idx = int(len(df) * (1 - test_ratio))
SplitIdx(n, num) == IntOf(IntTimes(n, OneMinus(DecimalToDouble(num, RatioDen))))

\* df.iloc[:split_idx] and df.iloc[split_idx:]
ILocHead(frame, split_idx) == SubSeq(frame, 1, split_idx)
ILocTailFromPrevious(frame, split_idx) == SubSeq(frame, split_idx, Len(frame))
ILocTail(frame, split_idx) == SubSeq(frame, split_idx + 1, Len(frame))

\* the outcome of split_chronological(frame, num/RatioDen)
SplitOutcome(frame, num) ==
    IF ~RatioInRange(num)
    THEN [raised |-> "ValueError", train |-> <<>>, test |-> <<>>]
    ELSE LET split_idx == SplitIdx(Len(frame), num)
         IN  IF split_idx = 0 \/ split_idx = Len(frame)
             THEN [raised |-> "ValueError", train |-> <<>>, test |-> <<>>]
             ELSE [raised |-> "", train |-> ILocHead(frame, split_idx),
                   test |-> ILocTail(frame, split_idx)]

-----------------------------------------------------------------------------
(* Feature frames: a row carries its label in the query result and its    *)
(* timestamp.  query_features reads ORDER BY time, and split_chronological *)
(* documents its input as sorted by time ascending: frames are sorted,     *)
(* timestamps may repeat.                                                  *)

RECURSIVE SumTo(_, _)
SumTo(c, t) == IF t = 0 THEN 0 ELSE c[t] + SumTo(c, t - 1)

\* the sorted frame holding c[t] rows of timestamp t
FrameOf(c) ==
    [i \in 1..SumTo(c, MaxTime) |->
        [row |-> i,
         time |-> CHOOSE t \in 1..MaxTime : SumTo(c, t - 1) < i /\ i <= SumTo(c, t)]]

Frames(maxRows) ==
    {FrameOf(c) : c \in {d \in [1..MaxTime -> 0..maxRows] : SumTo(d, MaxTime) <= maxRows}}

Times(frame) == {frame[i].time : i \in 1..Len(frame)}

StrictlyAscending(frame) ==
    \A i \in 1..(Len(frame) - 1) : frame[i].time < frame[i + 1].time

-----------------------------------------------------------------------------
(* SpecSplit: one call of split_chronological(df, test_ratio) *)

InitSplit ==
    /\ EtlUnused /\ RunUnused /\ SideUnused
    /\ feature_cols = <<>> /\ view = <<>> /\ trace = <<>> /\ files = {} /\ exports = 0
    /\ df \in Frames(MaxRows)
    /\ test_ratio \in Ratios
    /\ stage = "call"
    /\ train_df = <<>> /\ test_df = <<>> /\ error = ""

CallSplit ==
    /\ stage = "call"
    /\ LET out == SplitOutcome(df, test_ratio)
       IN  /\ stage' = IF out.raised = "" THEN "returned" ELSE "raised"
           /\ error' = out.raised
           /\ train_df' = out.train
           /\ test_df' = out.test
    /\ UNCHANGED <<sideVars, etlVars, runVars, feature_cols, view, df, test_ratio, trace, files, exports>>

NextSplit == CallSplit

SpecSplit == InitSplit /\ [][NextSplit]_vars

-----------------------------------------------------------------------------
(* run_export *)

TARGET_COL == "price_eur_mwh"

FEATURE_COLS ==
    <<"lag_1h", "lag_2h", "lag_24h", "lag_168h", "rolling_avg_24h", "rolling_avg_7d",
      "hour_of_day", "day_of_week", "month", "is_weekend", "is_peak_hour",
      "temperature_2m", "wind_speed_10m", "shortwave_radiation", "cloud_cover",
      "temp_rolling_avg_24h", "discharge_m3s", "level_masl", "ekz_price_chf_kwh_avg">>

\* the module-level list as declared, and with the target injected into it
FeatureLists == {FEATURE_COLS, Append(FEATURE_COLS, TARGET_COL)}

\* validate_no_leakage: the exception it raises, "" when it returns
ValidateNoLeakageLastOnly(cols, target) ==
    IF cols # <<>> /\ cols[Len(cols)] = target THEN "ValueError" ELSE ""
ValidateNoLeakage(cols, target) ==
    IF \E i \in 1..Len(cols) : cols[i] = target THEN "ValueError" ELSE ""

\* the column the message of that exception names, "" when it returns
LeakageNamed(cols, target) ==
    IF ValidateNoLeakage(cols, target) = "" THEN "" ELSE target

\* the statements of run_export in program order: the position each stage
\* starts from, and the position control reaches when it returns
StageAtQueryFirst(pos) ==
    CASE pos = "start" -> "QUERY"
      [] pos = "queried" -> "SPLIT"
      [] pos = "split" -> "SAVE"
      [] pos = "saved" -> "DONE"
      [] OTHER -> "NONE"
StageAt(pos) ==
    CASE pos = "start" -> "VALIDATE_NO_LEAKAGE"
      [] pos = "validated" -> "QUERY"
      [] pos = "queried" -> "SPLIT"
      [] pos = "split" -> "SAVE"
      [] pos = "saved" -> "DONE"
      [] OTHER -> "NONE"

\* df.empty
EmptyIgnored(frame) == FALSE
Empty(frame) == Len(frame) = 0

\* where control goes when a stage raises: out of run_export
RaisedContinues(pos) == pos
Raised(pos) == "failed"

\* splits.items(): the four artifacts in the order they are written
Artifacts == <<"X_train", "X_test", "y_train", "y_test">>
Written(n) == {Artifacts[i] : i \in 1..n}

ExportInputs ==
    /\ feature_cols \in FeatureLists
    /\ view \in Frames(MaxViewRows)
    /\ test_ratio \in Ratios

InitExport ==
    /\ EtlUnused /\ RunUnused /\ SideUnused
    /\ ExportInputs
    /\ df = <<>> /\ train_df = <<>> /\ test_df = <<>>
    /\ stage = "start" /\ trace = <<>> /\ files = {} /\ error = "" /\ exports = 1

\* validate_no_leakage(FEATURE_COLS, TARGET_COL)
Validate ==
    /\ StageAt(stage) = "VALIDATE_NO_LEAKAGE"
    /\ trace' = Append(trace, "VALIDATE_NO_LEAKAGE")
    /\ LET raised == ValidateNoLeakage(feature_cols, TARGET_COL)
       IN  /\ error' = raised
           /\ stage' = IF raised = "" THEN "validated" ELSE Raised("validated")
    /\ UNCHANGED <<sideVars, etlVars, runVars, feature_cols, view, df, test_ratio, train_df,
                   test_df, files, exports>>

\* with get_conn() as conn: df = query_features(conn); then the df.empty check
Query ==
    /\ StageAt(stage) = "QUERY"
    /\ trace' = Append(trace, "QUERY")
    /\ \/ \* the pool, the query or the commit fails: rollback, the error propagates
          /\ pool' \in {pool, "open"}
          /\ error' = "DatabaseError"
          /\ stage' = Raised("queried")
          /\ df' = df
       \/ /\ pool' = "open"
          /\ df' = view
          /\ error' = IF Empty(view) THEN "RuntimeError" ELSE ""
          /\ stage' = IF Empty(view) THEN Raised("queried") ELSE "queried"
    /\ UNCHANGED <<sideVars, table, task, raw, records, inserted, upserts, last_batch, runs, runVars,
                   feature_cols, view, test_ratio, train_df, test_df, files, exports>>

\* train_df, test_df = split_chronological(df, test_ratio)
Split ==
    /\ StageAt(stage) = "SPLIT"
    /\ trace' = Append(trace, "SPLIT")
    /\ LET out == SplitOutcome(df, test_ratio)
       IN  /\ error' = out.raised
           /\ stage' = IF out.raised = "" THEN "split" ELSE Raised("split")
           /\ train_df' = out.train
           /\ test_df' = out.test
    /\ UNCHANGED <<sideVars, etlVars, runVars, feature_cols, view, df, test_ratio, files, exports>>

\* save_parquet: mkdir, then one to_parquet per artifact; a write may fail
Save ==
    /\ StageAt(stage) = "SAVE"
    /\ trace' = Append(trace, "SAVE")
    /\ \E n \in 0..Len(Artifacts) :
          /\ files' = files \cup Written(n)
          /\ error' = IF n = Len(Artifacts) THEN "" ELSE "OSError"
          /\ stage' = IF n = Len(Artifacts) THEN "saved" ELSE Raised("saved")
    /\ UNCHANGED <<sideVars, etlVars, runVars, feature_cols, view, df, test_ratio, train_df,
                   test_df, exports>>

\* the report is printed and the paths are returned
Return ==
    /\ StageAt(stage) = "DONE"
    /\ trace' = Append(trace, "DONE")
    /\ stage' = "done"
    /\ UNCHANGED <<sideVars, etlVars, runVars, feature_cols, view, df, test_ratio, train_df,
                   test_df, files, error, exports>>

\* the orchestrator starts the whole pipeline again (bdsp_feature_daily: the
\* daily schedule, or its one retry of a failed run)
StartExport ==
    /\ stage \in {"done", "failed"}
    /\ exports < MaxExports
    /\ exports' = exports + 1
    /\ feature_cols' \in FeatureLists
    /\ view' \in Frames(MaxViewRows)
    /\ test_ratio' \in Ratios
    /\ df' = <<>> /\ train_df' = <<>> /\ test_df' = <<>>
    /\ stage' = "start" /\ trace' = <<>> /\ files' = {} /\ error' = ""
    /\ UNCHANGED <<sideVars, etlVars, runVars>>

NextExport == Validate \/ Query \/ Split \/ Save \/ Return \/ StartExport

SpecExport == InitExport /\ [][NextExport]_vars

-----------------------------------------------------------------------------
(* The fetch transport: BaseCollector._fetch_with_retry *)

max_retries == 3
RetryAfterDefault == 60

\* status codes a server answers with
Statuses == {200, 204, 301, 400, 401, 404, 429, 500, 502, 503, 504}

\* values of the Retry-After header of a 429 response: absent, delay-seconds
\* or an HTTP-date
HttpDate == "Wed, 21 Oct 2015 07:28:00 GMT"
RetryAfterHeaders == {"absent", "0", "7", "120", "-1", HttpDate}

Responses ==
    {[status |-> st, retry_after |-> h] :
        st \in Statuses \ {429}, h \in {"absent"}} \cup
    {[status |-> 429, retry_after |-> h] : h \in RetryAfterHeaders}

\* int(response.headers.get("Retry-After", 60)): the exception raised, the value
RetryAfterOf(h) ==
    CASE h = "absent" -> [raised |-> "", value |-> RetryAfterDefault]
      [] h = "0" -> [raised |-> "", value |-> 0]
      [] h = "7" -> [raised |-> "", value |-> 7]
      [] h = "120" -> [raised |-> "", value |-> 120]
      [] h = "-1" -> [raised |-> "", value |-> 0 - 1]
      [] OTHER -> [raised |-> "ValueError", value |-> 0]

\* time.sleep(secs) rejects a negative length
SleepRaises(secs) == IF secs < 0 THEN "ValueError" ELSE ""

\* the statuses the loop retries
RetryableAny5xx(status) == status = 429 \/ status \div 100 = 5
Retryable(status) == status \in {429, 500, 502, 503}

\* time.sleep(2 ** attempt)
BackoffLinear(a) == a + 1
Backoff(a) == 2 ^ a

\* response.raise_for_status(): every status outside 2xx raises
RaiseForStatus(status) == IF status \div 100 = 2 THEN "" ELSE "HTTPStatusError"

NoError == [kind |-> "", status |-> 0]
Failure(kind, status) == [kind |-> kind, status |-> status]

Last(seq) == seq[Len(seq)]

InitFetch ==
    /\ EtlUnused /\ RunUnused /\ ExportUnused /\ UnitUnused /\ PoolUnused
    /\ ParseUnused /\ InstancesUnused
    /\ target_col = ""
    /\ attempt = 0 /\ gets = 0 /\ slept = <<>> /\ responses = <<>>
    /\ fetch_pc = "loop" /\ fetch_error = NoError

\* continue: the next iteration, or the loop is exhausted
Continue ==
    IF attempt + 1 < max_retries
    THEN attempt' = attempt + 1 /\ fetch_pc' = "loop"
    ELSE attempt' = attempt /\ fetch_pc' = "exhausted"

\* the exception leaves the call
Raise(kind, status) ==
    /\ fetch_pc' = "raised" /\ fetch_error' = Failure(kind, status)
    /\ attempt' = attempt

\* one iteration of the loop: the GET and the handling of its response
Get ==
    /\ fetch_pc = "loop"
    /\ gets' = gets + 1
    /\ \/ \* httpx.get itself raises (timeout, connection error)
          /\ Raise("TransportError", 0)
          /\ UNCHANGED <<slept, responses>>
       \/ \E resp \in Responses :
          /\ responses' = Append(responses, resp)
          /\ IF resp.status = 429
             THEN LET retry_after == RetryAfterOf(resp.retry_after)
                  IN  IF retry_after.raised # ""
                      THEN Raise(retry_after.raised, 0) /\ slept' = slept
                      ELSE IF SleepRaises(retry_after.value) # ""
                      THEN Raise(SleepRaises(retry_after.value), 0) /\ slept' = slept
                      ELSE /\ slept' = Append(slept, retry_after.value)
                           /\ Continue /\ fetch_error' = fetch_error
             ELSE IF Retryable(resp.status)
             THEN /\ slept' = Append(slept, Backoff(attempt))
                  /\ Continue /\ fetch_error' = fetch_error
             ELSE IF RaiseForStatus(resp.status) # ""
             THEN Raise(RaiseForStatus(resp.status), resp.status) /\ slept' = slept
             ELSE /\ fetch_pc' = "returned"
                  /\ UNCHANGED <<attempt, slept, fetch_error>>
    /\ UNCHANGED <<etlVars, runVars, exportVars, unitVars, holder, instanceVars, parseVars, target_col>>

\* after the loop: response.raise_for_status() on the last response
Exhausted ==
    /\ fetch_pc = "exhausted"
    /\ IF RaiseForStatus(Last(responses).status) # ""
       THEN Raise(RaiseForStatus(Last(responses).status), Last(responses).status)
       ELSE fetch_pc' = "returned" /\ UNCHANGED <<attempt, fetch_error>>
    /\ UNCHANGED <<etlVars, runVars, exportVars, unitVars, holder, instanceVars, parseVars, target_col, gets,
                   slept, responses>>

NextFetch == Get \/ Exhausted

SpecFetch == InitFetch /\ [][NextFetch]_vars

-----------------------------------------------------------------------------
(* SpecLeakage: one call of validate_no_leakage(feature_cols, target_col) *)

ColumnNames == {"lag_1h", "temperature_2m", "price_eur_mwh"}

InitLeakage ==
    /\ EtlUnused /\ RunUnused /\ FetchUnused /\ UnitUnused /\ PoolUnused
    /\ ParseUnused /\ InstancesUnused
    /\ feature_cols \in SeqsUpTo(ColumnNames, MaxCols)
    /\ target_col \in {"price_eur_mwh", "lag_1h"}
    /\ stage = "call" /\ error = [kind |-> "", column |-> ""]
    /\ view = <<>> /\ df = <<>> /\ test_ratio = 0 /\ trace = <<>> /\ train_df = <<>>
    /\ test_df = <<>> /\ files = {} /\ exports = 0

CallValidateNoLeakage ==
    /\ stage = "call"
    /\ error' = [kind |-> ValidateNoLeakage(feature_cols, target_col),
                 column |-> LeakageNamed(feature_cols, target_col)]
    /\ stage' = IF ValidateNoLeakage(feature_cols, target_col) = "" THEN "returned" ELSE "raised"
    /\ UNCHANGED <<etlVars, runVars, fetchVars, unitVars, holder, instanceVars, parseVars, target_col,
                   feature_cols, view, df, test_ratio, trace, train_df, test_df, files, exports>>

NextLeakage == CallValidateNoLeakage

SpecLeakage == InitLeakage /\ [][NextLeakage]_vars

-----------------------------------------------------------------------------
(* SpecUnit: calls of _bulk_execute(sql, records), statement by statement.   *)
(* The connection works in a transaction: its inserts are in tx and reach    *)
(* the committed table with commit(); rollback() discards them.              *)

UnitRecords == {Record("ekz", Aware(h, 0), v) : h \in Hours, v \in Values}
Batches == SeqsUpTo(UnitRecords, MaxEntries)

\* what the table holds after a failed unit: except: conn.rollback()
OnExceptionKeep(committed, working) == working
OnException(committed, working) == committed

\* finally: get_pool().putconn(conn), on the failing path as on the other
PutConnOnSuccess(issued, failed) == IF failed THEN issued ELSE Append(issued, "putconn")
PutConn(issued, failed) == Append(issued, "putconn")

InitUnit ==
    /\ TasksUnused /\ pool = "none" /\ RunUnused /\ ExportUnused /\ FetchUnused /\ PoolUnused
    /\ ParseUnused /\ InstancesUnused
    /\ target_col = ""
    /\ unit_pc = "call" /\ unit_table = EmptyBag /\ before = EmptyBag /\ tx = EmptyBag
    /\ unit_batch \in Batches
    /\ done = 0 /\ rowcount = 0 /\ conn_calls = <<>> /\ unit_error = ""
    /\ unit_result = 0 - 1 /\ calls = 1

unitFrame == <<table, task, raw, records, inserted, upserts, last_batch, runs, runVars,
               exportVars, fetchVars, holder, instanceVars, parseVars, target_col>>

\* if not records: return 0; otherwise conn = get_pool().getconn(), the pool
\* being created on first use
Enter ==
    /\ unit_pc = "call"
    /\ \/ /\ NotRecords(unit_batch)
          /\ unit_pc' = "returned" /\ unit_result' = 0
          /\ UNCHANGED <<pool, conn_calls, unit_error, tx>>
       \/ /\ ~NotRecords(unit_batch)
          /\ pool' = "open"
          /\ unit_pc' = "body" /\ conn_calls' = Append(conn_calls, "getconn")
          /\ tx' = unit_table
          /\ UNCHANGED <<unit_error, unit_result>>
       \/ \* the pool cannot be created, or it hands out no connection
          /\ ~NotRecords(unit_batch)
          /\ pool' \in {pool, "open"}
          /\ unit_pc' = "raised" /\ unit_error' = "PoolError"
          /\ UNCHANGED <<conn_calls, unit_result, tx>>
    /\ UNCHANGED <<unitFrame, unit_table, unit_batch, before, done, rowcount, calls>>

\* one statement of cur.executemany(sql, records)
Execute ==
    /\ unit_pc = "body" /\ done < Len(unit_batch)
    /\ \/ /\ tx' = InsertOnConflictDoNothing(tx, unit_batch[done + 1])
          /\ rowcount' = AccumulateRowCount(rowcount,
                                            StatementRowCount(tx, unit_batch[done + 1]))
          /\ done' = done + 1
          /\ UNCHANGED <<unit_pc, unit_error>>
       \/ \* the statement fails: the exception reaches get_conn
          /\ unit_pc' = "except" /\ unit_error' = "DatabaseError"
          /\ UNCHANGED <<tx, done, rowcount>>
    /\ UNCHANGED <<unitFrame, pool, unit_table, unit_batch, before, conn_calls, unit_result, calls>>

\* return cur.rowcount: the body of the with block is left
Leave ==
    /\ unit_pc = "body" /\ done = Len(unit_batch)
    /\ unit_result' = rowcount
    /\ unit_pc' = "commit"
    /\ UNCHANGED <<unitFrame, pool, unit_table, unit_batch, before, tx, done, rowcount, conn_calls,
                   unit_error, calls>>

\* conn.commit()
Commit ==
    /\ unit_pc = "commit"
    /\ conn_calls' = Append(conn_calls, "commit")
    /\ \/ unit_table' = tx /\ unit_pc' = "finally" /\ unit_error' = unit_error
       \/ unit_table' = unit_table /\ unit_pc' = "except" /\ unit_error' = "DatabaseError"
    /\ UNCHANGED <<unitFrame, pool, unit_batch, before, tx, done, rowcount, unit_result, calls>>

\* except Exception: conn.rollback(); raise
Except ==
    /\ unit_pc = "except"
    /\ conn_calls' = Append(conn_calls, "rollback")
    /\ unit_table' = OnException(unit_table, tx)
    /\ tx' = unit_table'
    /\ unit_pc' = "finally"
    /\ UNCHANGED <<unitFrame, pool, unit_batch, before, done, rowcount, unit_error, unit_result,
                   calls>>

\* finally: get_pool().putconn(conn); then the call returns or raises
Finally ==
    /\ unit_pc = "finally"
    /\ conn_calls' = PutConn(conn_calls, unit_error # "")
    /\ unit_pc' = IF unit_error = "" THEN "returned" ELSE "raised"
    \* the row count on its way out is delivered only when nothing was raised
    /\ unit_result' = IF unit_error = "" THEN unit_result ELSE 0 - 1
    /\ UNCHANGED <<unitFrame, pool, unit_table, unit_batch, before, tx, done, rowcount, unit_error,
                   calls>>

\* the caller calls again, with any record list
CallAgain ==
    /\ unit_pc \in {"returned", "raised"}
    /\ calls < MaxCalls
    /\ calls' = calls + 1
    /\ unit_batch' \in Batches
    /\ before' = unit_table /\ tx' = unit_table
    /\ unit_pc' = "call" /\ done' = 0 /\ rowcount' = 0 /\ conn_calls' = <<>>
    /\ unit_error' = "" /\ unit_result' = 0 - 1
    /\ UNCHANGED <<unitFrame, pool, unit_table>>

NextUnit == Enter \/ Execute \/ Leave \/ Commit \/ Except \/ Finally \/ CallAgain

SpecUnit == InitUnit /\ [][NextUnit]_vars

-----------------------------------------------------------------------------
(* SpecPool: concurrent units of work on the process-wide pool.  getconn of  *)
(* psycopg2's ThreadedConnectionPool hands out a connection while fewer than *)
(* maxconn are in use and raises PoolError("connection pool exhausted")      *)
(* otherwise.                                                                *)

maxconn == 10

Units == 1..MaxUnits

InUse == {u \in Units : holder[u] = "out"}

InitPool ==
    /\ TasksUnused /\ RunUnused /\ ExportUnused /\ FetchUnused /\ UnitUnused
    /\ ParseUnused /\ InstancesUnused
    /\ target_col = ""
    /\ pool = "none"
    /\ holder = [u \in Units |-> "idle"]

poolFrame == <<table, task, raw, records, inserted, upserts, last_batch, runs, runVars,
               exportVars, fetchVars, unitVars, instanceVars, parseVars, target_col>>

\* conn = get_pool().getconn(): the pool is created on first use
Checkout(u) ==
    /\ holder[u] = "idle"
    /\ pool' = "open"
    /\ holder' = [holder EXCEPT ![u] =
                     IF Cardinality(InUse) < maxconn THEN "out" ELSE "refused"]
    /\ UNCHANGED poolFrame

\* the unit of work ends: commit or rollback, then putconn(conn)
Release(u) ==
    /\ holder[u] = "out"
    /\ holder' = [holder EXCEPT ![u] = "idle"]
    /\ UNCHANGED <<poolFrame, pool>>

\* the PoolError has reached the caller of the refused unit
Refused(u) ==
    /\ holder[u] = "refused"
    /\ holder' = [holder EXCEPT ![u] = "idle"]
    /\ UNCHANGED <<poolFrame, pool>>

NextPool == \E u \in Units : Checkout(u) \/ Release(u) \/ Refused(u)

SpecPool == InitPool /\ [][NextPool]_vars

-----------------------------------------------------------------------------
(* SpecInstances: threads of one process, each going once through            *)
(*     conn = get_pool().getconn(); body; get_pool().putconn(conn)           *)
(* get_pool holds no lock: its test of _pool, the construction of a pool,    *)
(* the assignment to _pool and the read of _pool it returns are separate     *)
(* steps that threads interleave.  closeall() may be called on the current   *)
(* pool at any time.  putconn of psycopg2 raises PoolError on a closed pool  *)
(* and on a connection the pool did not hand out.                            *)

Threads == 1..MaxThreads

\* a thread: where it is, which half of get_conn calls get_pool ("enter": for
\* getconn, "exit": for putconn), the pool it constructed, the pool get_pool
\* returned to it, the pool its connection came from, the pool that took the
\* connection back, and the exception it raised
AtStart ==
    [pc |-> "check", half |-> "enter", made |-> 0, got |-> 0, origin |-> 0, back |-> 0,
     raised |-> ""]

Live == {i \in 1..Len(instances) : instances[i] = "live"}

InitInstances ==
    /\ EtlUnused /\ RunUnused /\ ExportUnused /\ FetchUnused /\ UnitUnused /\ PoolUnused
    /\ ParseUnused
    /\ target_col = ""
    /\ pool_ref = 0 /\ instances = <<>>
    /\ thread = [t \in Threads |-> AtStart]

instanceFrame == <<etlVars, runVars, exportVars, fetchVars, unitVars, holder, parseVars,
                   target_col>>

\* if _pool is None or _pool.closed
PoolCheck(t) ==
    /\ thread[t].pc = "check"
    /\ thread' = [thread EXCEPT ![t].pc =
                     IF pool_ref = 0 \/ instances[pool_ref] = "closed"
                     THEN "create" ELSE "return"]
    /\ UNCHANGED <<instanceFrame, pool_ref, instances>>

\* pool.ThreadedConnectionPool(minconn=1, maxconn=10, dsn=...)
PoolCreate(t) ==
    /\ thread[t].pc = "create"
    /\ Len(instances) < MaxPools
    /\ instances' = Append(instances, "live")
    /\ thread' = [thread EXCEPT ![t].pc = "assign", ![t].made = Len(instances) + 1]
    /\ UNCHANGED <<instanceFrame, pool_ref>>

\* _pool = <the new pool>
PoolAssign(t) ==
    /\ thread[t].pc = "assign"
    /\ pool_ref' = thread[t].made
    /\ thread' = [thread EXCEPT ![t].pc = "return"]
    /\ UNCHANGED <<instanceFrame, instances>>

\* return _pool
PoolReturn(t) ==
    /\ thread[t].pc = "return"
    /\ thread' = [thread EXCEPT ![t].got = pool_ref,
                                ![t].pc = IF thread[t].half = "enter" THEN "getconn"
                                          ELSE "putconn"]
    /\ UNCHANGED <<instanceFrame, pool_ref, instances>>

\* conn = <pool>.getconn(): a closed pool raises PoolError
ConnGet(t) ==
    /\ thread[t].pc = "getconn"
    /\ thread' = [thread EXCEPT ![t] =
                     IF instances[thread[t].got] = "closed"
                     THEN [@ EXCEPT !.pc = "raised", !.raised = "PoolError"]
                     ELSE [@ EXCEPT !.pc = "body", !.origin = thread[t].got]]
    /\ UNCHANGED <<instanceFrame, pool_ref, instances>>

\* the body of the with block and commit / rollback; finally: get_pool()
UnitBody(t) ==
    /\ thread[t].pc = "body"
    /\ thread' = [thread EXCEPT ![t].pc = "check", ![t].half = "exit"]
    /\ UNCHANGED <<instanceFrame, pool_ref, instances>>

\* <pool>.putconn(conn): the pool takes back a connection it handed out,
\* unless it is closed
ConnPut(t) ==
    /\ thread[t].pc = "putconn"
    /\ thread' = [thread EXCEPT ![t] =
                     IF thread[t].got = thread[t].origin /\ instances[thread[t].got] = "live"
                     THEN [@ EXCEPT !.pc = "done", !.back = thread[t].got]
                     ELSE [@ EXCEPT !.pc = "raised", !.raised = "PoolError"]]
    /\ UNCHANGED <<instanceFrame, pool_ref, instances>>

\* _pool.closeall(), called on the current pool
CloseAll ==
    /\ pool_ref # 0 /\ instances[pool_ref] = "live"
    /\ instances' = [instances EXCEPT ![pool_ref] = "closed"]
    /\ UNCHANGED <<instanceFrame, pool_ref, thread>>

NextInstances ==
    \/ \E t \in Threads :
          PoolCheck(t) \/ PoolCreate(t) \/ PoolAssign(t) \/ PoolReturn(t)
              \/ ConnGet(t) \/ UnitBody(t) \/ ConnPut(t)
    \/ CloseAll

SpecInstances == InitInstances /\ [][NextInstances]_vars

-----------------------------------------------------------------------------
(* SpecBafu: one call of BafuCollector.parse(raw) on a JSON document whose   *)
(* "payload" is a list of entries {timestamp, par, val}, any of the three    *)
(* possibly absent                                                           *)

Null == 0 - 1     \* a key that is absent or null: entry.get(...) gives None

\* the entries a payload is made of: both parameters at two timestamps, and
\* entries that lack the timestamp, the tag or the value, or carry another tag
BafuEntries ==
    [timestamp : {0, 1}, par : {"flow", "height"}, val : {1, 2}] \cup
    {[timestamp |-> Null, par |-> "flow", val |-> 1],
     [timestamp |-> 0, par |-> "", val |-> 1],
     [timestamp |-> 1, par |-> "temperature", val |-> 1],
     [timestamp |-> 0, par |-> "height", val |-> Null]}

\* the payloads of up to n entries
BafuPayloads(n) == SeqsUpTo(BafuEntries, n)

\* the position of ts_unix in by_ts, 0 when it is no key
IndexOf(by_ts, ts_unix) ==
    IF \E k \in 1..Len(by_ts) : by_ts[k].ts_unix = ts_unix
    THEN CHOOSE k \in 1..Len(by_ts) : by_ts[k].ts_unix = ts_unix
    ELSE 0

\* the loop over the payload: by_ts, a dict in insertion order, each value
\* holding the fields set so far (Null: the field is not set)
RECURSIVE MergeByTs(_, _, _)
MergeByTs(entries, i, by_ts) ==
    IF i > Len(entries) THEN by_ts
    ELSE LET entry == entries[i]
             known == IF IndexOf(by_ts, entry.timestamp) = 0
                      THEN Append(by_ts, [ts_unix |-> entry.timestamp,
                                          discharge_m3s |-> Null, level_masl |-> Null])
                      ELSE by_ts
             k == IndexOf(known, entry.timestamp)
         IN  IF entry.timestamp = Null \/ entry.par = ""
             THEN MergeByTs(entries, i + 1, by_ts)
             ELSE MergeByTs(entries, i + 1,
                     IF entry.par = "flow"
                     THEN [known EXCEPT ![k].discharge_m3s = entry.val]
                     ELSE IF entry.par = "height"
                     THEN [known EXCEPT ![k].level_masl = entry.val]
                     ELSE known)

\* the record built from one value of by_ts
BafuRecord(fields) ==
    [time |-> Aware(fields.ts_unix, 0), station_id |-> SourceId("bafu"),
     discharge_m3s |-> fields.discharge_m3s, level_masl |-> fields.level_masl]

\* records.sort(key=lambda r: r["time"]): a stable sort, by insertion
RECURSIVE InsertByTime(_, _)
InsertByTime(sorted, rec) ==
    IF sorted = <<>> THEN <<rec>>
    ELSE IF Instant(sorted[Len(sorted)].time) <= Instant(rec.time)
    THEN Append(sorted, rec)
    ELSE Append(InsertByTime(SubSeq(sorted, 1, Len(sorted) - 1), rec), sorted[Len(sorted)])

RECURSIVE SortFrom(_, _, _)
SortFrom(recs, i, sorted) ==
    IF i > Len(recs) THEN sorted ELSE SortFrom(recs, i + 1, InsertByTime(sorted, recs[i]))

SortByTimeLeftOut(recs) == recs
SortByTime(recs) == SortFrom(recs, 1, <<>>)

\* BafuCollector.parse on the document {"payload": entries}
BafuParseEntries(entries) ==
    IF Len(entries) = 0 THEN <<>>
    ELSE LET by_ts == MergeByTs(entries, 1, <<>>)
         IN  SortByTime([k \in 1..Len(by_ts) |-> BafuRecord(by_ts[k])])

InitBafu ==
    /\ EtlUnused /\ RunUnused /\ ExportUnused /\ FetchUnused /\ UnitUnused /\ PoolUnused
    /\ InstancesUnused
    /\ target_col = ""
    /\ parse_raw \in BafuPayloads(MaxPayload) /\ parsed = <<>> /\ parse_pc = "call"

parseFrame == <<etlVars, runVars, exportVars, fetchVars, unitVars, holder, instanceVars,
                target_col>>

CallBafuParse ==
    /\ parse_pc = "call"
    /\ parsed' = BafuParseEntries(parse_raw)
    /\ parse_pc' = "returned"
    /\ UNCHANGED <<parseFrame, parse_raw>>

NextBafu == CallBafuParse

SpecBafu == InitBafu /\ [][NextBafu]_vars

-----------------------------------------------------------------------------
(* SpecEntsoe: one call of EntsoeCollector.parse(raw) on a publication       *)
(* document: TimeSeries elements, each with a currency and Period children,  *)
(* each Period with a start, a resolution and Point children.  A sub-element *)
(* that is absent is Null (numbers) or "" (text).  Times are in minutes.     *)

Point(position, price) == [position |-> position, price |-> price]

\* the Point children of a Period: none, in order, out of order, one without
\* position, one without price
PointLists ==
    {<<>>, <<Point(1, 1), Point(2, 2)>>, <<Point(2, 2), Point(1, 1)>>,
     <<Point(Null, 1), Point(2, 2)>>, <<Point(1, Null)>>}

\* resolution tokens: the four known ones, an unknown one, none
Resolutions == {"PT15M", "PT30M", "PT60M", "P1D", "PT5M", ""}

Period(start, resolution, points) ==
    [start |-> start, resolution |-> resolution, points |-> points]

Periods ==
    {Period(0, r, <<Point(1, 1), Point(2, 2)>>) : r \in Resolutions} \cup
    {Period(0, "PT60M", pl) : pl \in PointLists} \cup
    {Period(Null, "PT60M", <<Point(1, 1)>>)}

\* the Periods that occur together in one TimeSeries
NestedPeriods ==
    {Period(0, "PT60M", <<Point(1, 1), Point(2, 2)>>), Period(0, "PT15M", <<Point(2, 2)>>),
     Period(Null, "PT60M", <<Point(1, 1)>>)}

PeriodLists ==
    {<<>>} \cup {<<p>> : p \in Periods} \cup {<<p, q>> : p \in NestedPeriods, q \in NestedPeriods}

TimeSeries ==
    {[currency |-> "CHF", periods |-> pl] : pl \in PeriodLists} \cup
    {[currency |-> "", periods |-> <<Period(0, "PT60M", <<Point(1, 1), Point(2, 2)>>)>>]}

\* the documents of up to n TimeSeries
Documents(n) == SeqsUpTo(TimeSeries, n)

\* _text(...) or default
OrDefault(text, default) == IF text = "" THEN default ELSE text

\* _resolution_to_minutes
ResolutionToMinutes(resolution) ==
    CASE resolution = "PT15M" -> 15
      [] resolution = "PT30M" -> 30
      [] resolution = "PT60M" -> 60
      [] resolution = "P1D" -> 1440
      [] OTHER -> 60

\* position = int(pos_str) - 1
PositionAsGiven(position) == position
ZeroBased(position) == position - 1

\* ts.find("ns:Period", _NS): the first Period child; <<>> stands for None
FindPeriod(ts) == IF ts.periods = <<>> THEN <<>> ELSE <<ts.periods[1]>>

\* for point in period.findall("ns:Point", _NS): the records appended
RECURSIVE PointRecords(_, _, _, _, _)
PointRecords(points, j, interval_start, interval_minutes, currency) ==
    IF j > Len(points) THEN <<>>
    ELSE LET point == points[j]
             rest == PointRecords(points, j + 1, interval_start, interval_minutes, currency)
         IN  IF point.position = Null \/ point.price = Null THEN rest
             ELSE <<[time |-> [interval_start EXCEPT
                                  !.wall = @ + ZeroBased(point.position) * interval_minutes],
                     price_eur_mwh |-> point.price,
                     currency |-> currency,
                     domain |-> SourceId("entsoe")]>> \o rest

\* the body of the loop over the TimeSeries: the records one TimeSeries adds
SeriesRecords(ts) ==
    LET currency == OrDefault(ts.currency, "EUR")
        period == FindPeriod(ts)
    IN  IF period = <<>> THEN <<>>
        ELSE IF period[1].start = Null THEN <<>>
        ELSE PointRecords(period[1].points, 1,
                          FromIsoFormat(period[1].start, ReplaceZ("Z")),
                          ResolutionToMinutes(OrDefault(period[1].resolution, "PT60M")),
                          currency)

\* EntsoeCollector.parse on a document
RECURSIVE EntsoeParseDocument(_, _)
EntsoeParseDocument(doc, i) ==
    IF i > Len(doc) THEN <<>>
    ELSE SeriesRecords(doc[i]) \o EntsoeParseDocument(doc, i + 1)

InitEntsoe ==
    /\ EtlUnused /\ RunUnused /\ ExportUnused /\ FetchUnused /\ UnitUnused /\ PoolUnused
    /\ InstancesUnused
    /\ target_col = ""
    /\ parse_raw \in Documents(MaxSeries) /\ parsed = <<>> /\ parse_pc = "call"

CallEntsoeParse ==
    /\ parse_pc = "call"
    /\ parsed' = EntsoeParseDocument(parse_raw, 1)
    /\ parse_pc' = "returned"
    /\ UNCHANGED <<parseFrame, parse_raw>>

NextEntsoe == CallEntsoeParse

SpecEntsoe == InitEntsoe /\ [][NextEntsoe]_vars

-----------------------------------------------------------------------------
(* SpecAscending: one call of validate_ascending_timestamps(df) on a frame   *)
(* whose time column holds timestamps (datetime64 values, which              *)
(* pd.to_datetime hands back as they are), in any order and with repeats     *)

\* the time columns of up to n rows
TimeColumns(n) == SeqsUpTo(1..MaxTime, n)

\* Series.is_monotonic_increasing: no value is smaller than the one before it
IsMonotonicIncreasing(times) ==
    \A i \in 1..(Len(times) - 1) : times[i] <= times[i + 1]

\* validate_ascending_timestamps: the exception raised, "" when it returns
ValidateAscendingTimestamps(times) ==
    IF ~IsMonotonicIncreasing(times) THEN "ValueError" ELSE ""

InitAscending ==
    /\ EtlUnused /\ RunUnused /\ ExportUnused /\ FetchUnused /\ UnitUnused /\ PoolUnused
    /\ InstancesUnused
    /\ target_col = ""
    /\ parse_raw \in TimeColumns(MaxColumn) /\ parsed = "" /\ parse_pc = "call"

CallValidateAscending ==
    /\ parse_pc = "call"
    /\ parsed' = ValidateAscendingTimestamps(parse_raw)
    /\ parse_pc' = IF ValidateAscendingTimestamps(parse_raw) = "" THEN "returned" ELSE "raised"
    /\ UNCHANGED <<parseFrame, parse_raw>>

NextAscending == CallValidateAscending

SpecAscending == InitAscending /\ [][NextAscending]_vars

-----------------------------------------------------------------------------
(* Claims about the upserts *)

IsPrefix(s, t) == Len(s) <= Len(t) /\ s = SubSeq(t, 1, Len(s))

\* the number of stored rows that carry the key
KeyCount(rows, key) ==
    BagCardinality([r \in {x \in BagToSet(rows) : KeyOf(x) = key} |-> rows[r]])

\* C1: after N >= 1 successful upserts of one source with the identical record
\* list, the table of the source holds exactly one row for every natural key
\* of that list, and the call that just returned gave a count >= 0.
C1_IdempotentUpsert ==
    \A s \in Sources :
        upserts[s] >= 1 =>
            /\ \A i \in 1..Len(last_batch[s]) :
                  KeyCount(table[s], KeyOf(RowOf(last_batch[s][i]))) = 1
            /\ task[s] = "done" => inserted[s] >= 0 /\ records[s] = last_batch[s]

\* the task just upserted, for the second time in a row, one list of two records
C1_Witness ==
    \E s \in Sources :
        /\ task[s] = "done" /\ upserts[s] >= 2
        /\ Len(last_batch[s]) = 2 /\ inserted[s] = 0 /\ BagCardinality(table[s]) = 2

\* after the step the table of s holds, under the key of the stored row r,
\* that row with its values and nothing else
Kept(s, r) ==
    /\ {x \in BagToSet(table'[s]) : KeyOf(x) = KeyOf(r)} = {r}
    /\ CopiesIn(r, table'[s]) = CopiesIn(r, table[s])

\* C2: first write wins.  No step changes, removes or doubles a stored row:
\* after every step the rows carrying the key of a stored row are that row alone.
C2_FirstWriteWins ==
    [][\A s \in Sources : \A r \in BagToSet(table[s]) : Kept(s, r)]_vars

\* a later run upserted records whose keys were all stored, one of them with
\* another value than the stored row has
C2_Witness ==
    \E s \in Sources :
        /\ task[s] = "done" /\ runs = 2 /\ inserted[s] = 0
        /\ \E i \in 1..Len(records[s]) : \E r \in BagToSet(table[s]) :
              /\ KeyOf(RowOf(records[s][i])) = KeyOf(r)
              /\ records[s][i].val # r.val

-----------------------------------------------------------------------------
(* Claims about run() and the ETL tasks *)

\* a record that lacks time, or whose time is no datetime, or is naive
Violates(rec) == rec.time.kind \in {"missing", "str", "naive"}

AfterParse == run_pc \in {"returned", "raised"} /\ run_error \notin {"FetchError", "ParseError"}

\* C3: once parse() has returned, run() raises ValueError or TypeError when some
\* record violates the time contract, and otherwise returns the very list
\* parse() produced.
C3_RunValidates ==
    AfterParse =>
        IF \E i \in 1..Len(run_records) : Violates(run_records[i])
        THEN run_pc = "raised" /\ run_error \in {"ValueError", "TypeError"}
        ELSE run_pc = "returned" /\ run_result = run_records /\ run_error = ""

\* run() raised on a list whose first record is fine and whose second is naive
C3_Witness ==
    /\ run_pc = "raised" /\ run_error = "ValueError"
    /\ Len(run_records) = 2
    /\ run_records[1].time.kind = "aware"
    /\ run_records[2].time.kind = "naive"

\* a step that writes to the table of s is the upsert of a validated list
WritesOnlyValidated ==
    \A s \in Sources :
        table'[s] # table[s] =>
            /\ task[s] = "validated" /\ task'[s] = "done"
            /\ \A i \in 1..Len(records[s]) : ~Violates(records[s][i])

\* a step in which the task of s fails before the upsert writes nothing
FailedStepWritesNothing ==
    \A s \in Sources :
        task'[s] \in {"fetch_failed", "parse_failed", "invalid"} => table' = table

\* C4: the table of a source changes only in the upsert step of a task whose
\* whole record list passed validation; the steps of a task that fails in
\* fetch, parse or validation leave every table as it was.
C4_UpsertAfterValidation == [][WritesOnlyValidated /\ FailedStepWritesNothing]_vars

\* a task failed validation on a non-empty list, after an earlier run had
\* stored rows of the source: none of the rejected records is in the table
C4_Witness ==
    \E s \in Sources :
        /\ task[s] = "invalid" /\ records[s] # <<>> /\ table[s] # EmptyBag
        /\ \A i \in 1..Len(records[s]) : KeyCount(table[s], KeyOf(RowOf(records[s][i]))) = 0

\* C5: every record of a list that passed validation has an aware time with
\* UTC offset zero.
C5_ValidatedIsUtc ==
    \A s \in Sources :
        task[s] \in {"validated", "done", "upsert_failed"} =>
            \A i \in 1..Len(records[s]) :
                records[s][i].time.kind = "aware" /\ records[s][i].time.off = 0

\* the calls of a run() that raised, by the call that raised
CallsUpTo(raised) ==
    CASE raised = "FetchError" -> <<"fetch">>
      [] raised = "ParseError" -> <<"fetch", "parse">>
      [] OTHER -> <<"fetch", "parse", "_validate">>

\* a run() that raised or returned makes no call
RunIsOver == run_pc \in {"raised", "returned"} => run_calls' = run_calls

\* C27: run() calls fetch, then parse, then the validation, each at most once
\* and each only after the one before it has returned: fetch exactly once in
\* every run, and all three in a run that returns.  When one of them raises,
\* the exception leaves run(): the calls made are those up to the one that
\* raised, and no call follows.
C27_RunSequential ==
    /\ [](/\ IsPrefix(run_calls, <<"fetch", "parse", "_validate">>)
          /\ run_pc # "init" => run_calls[1] = "fetch"
          /\ run_pc = "returned" => run_calls = <<"fetch", "parse", "_validate">>
          /\ run_pc = "raised" => run_error # "" /\ run_calls = CallsUpTo(run_error))
    /\ [][RunIsOver]_vars

\* parse raised after fetch had returned: two calls, and run() is over
C27_Witness ==
    /\ run_pc = "raised" /\ run_error = "ParseError" /\ run_calls = <<"fetch", "parse">>

-----------------------------------------------------------------------------
(* Claims about split_chronological *)

\* k = floor(n * (1 - r)) for r = num/RatioDen, in exact arithmetic
FloorIdx(n, num) == (n * (RatioDen - num)) \div RatioDen

MaxTimeOf(frame) == CHOOSE t \in Times(frame) : \A u \in Times(frame) : u <= t
MinTimeOf(frame) == CHOOSE t \in Times(frame) : \A u \in Times(frame) : t <= u

Chronological(train, test) ==
    /\ MaxTimeOf(train) < MinTimeOf(test)
    /\ Times(train) \cap Times(test) = {}

C7_SplitAtFloor ==
    stage = "returned" =>
        LET k == FloorIdx(Len(df), test_ratio)
        IN  /\ train_df = SubSeq(df, 1, k)
            /\ test_df = SubSeq(df, k + 1, Len(df))
            /\ Len(train_df) + Len(test_df) = Len(df)

\* C8: the call raises exactly when r is outside (0,1) or floor(n * (1 - r))
\* is 0 or n, and otherwise returns two non-empty partitions.
C8_RaisesExactly ==
    stage # "call" =>
        LET k == FloorIdx(Len(df), test_ratio)
            degenerate == ~(0 < test_ratio /\ test_ratio < RatioDen) \/ k = 0 \/ k = Len(df)
        IN  /\ (stage = "raised") <=> degenerate
            /\ (stage = "returned") => (train_df # <<>> /\ test_df # <<>>)

-----------------------------------------------------------------------------
(* Claims about run_export *)

Executed == {trace[i] : i \in 1..Len(trace)}

\* C9 as stated: the stages of a run are executed in the order QUERY,
\* VALIDATE_NO_LEAKAGE, SPLIT, SAVE, DONE.
C9_QueryBeforeValidate ==
    IsPrefix(trace, <<"QUERY", "VALIDATE_NO_LEAKAGE", "SPLIT", "SAVE", "DONE">>)

\* C9, amended: the stages of a run are executed in the order
\* VALIDATE_NO_LEAKAGE, QUERY, SPLIT, SAVE, DONE, each at most once and none
\* out of order: the leakage validation comes before the query.
C9_StageOrder ==
    IsPrefix(trace, <<"VALIDATE_NO_LEAKAGE", "QUERY", "SPLIT", "SAVE", "DONE">>)

C9_Witness ==
    stage = "done" /\ Len(trace) = 5 /\ files = Written(4)

\* a failed run is over: whatever the next step is, it starts another run
FailureIsTerminal ==
    (stage = "failed" /\ exports' = exports) => UNCHANGED <<trace, files, df, train_df, test_df, error, stage>>

FailedRun ==
    /\ (error # "") <=> (stage = "failed")
    /\ \A i, j \in 1..Len(trace) : trace[i] = trace[j] => i = j
    /\ (error # "" /\ trace = <<"VALIDATE_NO_LEAKAGE">>) => (df = <<>> /\ "QUERY" \notin Executed)

\* C10 as stated: a run in which any stage fails has executed no later stage,
\* retried none, and written no artifact file; a leakage failure comes before
\* the view is read.
C10_NoArtifactOnFailure ==
    /\ FailedRun
    /\ (stage = "failed") => (files = {})

\* C10, amended: a failure is terminal, no stage runs after it and none is
\* retried, and a leakage failure comes before the view is read; a run that
\* fails before SAVE has written no artifact file, and a run that fails inside
\* SAVE has written only the artifacts that precede the failing write.
C10_FailureTerminal ==
    /\ [](FailedRun
          /\ ((stage = "failed" /\ "SAVE" \notin Executed) => files = {})
          /\ ((stage = "failed" /\ "SAVE" \in Executed) =>
                 \E n \in 0..(Len(Artifacts) - 1) : files = Written(n)))
    /\ [][FailureIsTerminal]_vars

C10_Witness ==
    /\ stage = "failed" /\ error = "ValueError" /\ trace = <<"VALIDATE_NO_LEAKAGE">>
    /\ exports = 2

\* C11: when the unit of work that reads the view completes and the view has
\* no row, the run fails with RuntimeError, SPLIT and SAVE are never entered,
\* nothing is returned and no file is written.
C11_EmptyDatasetFails ==
    ("QUERY" \in Executed /\ view = <<>> /\ error # "DatabaseError") =>
        /\ stage = "failed" /\ error = "RuntimeError"
        /\ "SPLIT" \notin Executed /\ "SAVE" \notin Executed /\ "DONE" \notin Executed
        /\ files = {}

\* a run whose query returned the empty view
C11_Witness ==
    /\ trace = <<"VALIDATE_NO_LEAKAGE", "QUERY">> /\ view = <<>> /\ df = <<>>
    /\ pool = "open" /\ error = "RuntimeError"

-----------------------------------------------------------------------------
(* Claims about validate_no_leakage *)

Member(x, seq) == \E i \in 1..Len(seq) : seq[i] = x

\* the call has ended the way the membership of the target prescribes
LeakageOutcomeRight ==
    stage # "call" =>
        IF Member(target_col, feature_cols)
        THEN stage = "raised" /\ error = [kind |-> "ValueError", column |-> target_col]
        ELSE stage = "returned" /\ error.kind = ""

\* C12: validate_no_leakage raises ValueError, its message naming the target
\* column, exactly when the target is a member of the feature list, and the
\* call leaves the list as it was.
C12_LeakageGuard == []LeakageOutcomeRight /\ [][feature_cols' = feature_cols]_vars

\* the call raised on a list that holds the target in its middle
C12_Witness ==
    /\ stage = "raised" /\ Len(feature_cols) = 3
    /\ feature_cols[2] = target_col /\ feature_cols[1] # target_col
    /\ feature_cols[3] # target_col

-----------------------------------------------------------------------------
(* Claims about the error kinds of run_export *)

Preconditions == {"leakage", "empty", "invalid_split"}

\* the kind of error each violated precondition is reported with
KindOf(p) ==
    CASE p = "leakage" -> ValidateNoLeakage(<<TARGET_COL>>, TARGET_COL)
      [] p = "empty" -> "RuntimeError"
      [] p = "invalid_split" -> SplitOutcome(<<>>, 0).raised

\* the precondition whose violation ended the run
FailedPrecondition ==
    LET last == trace[Len(trace)]
    IN  CASE last = "VALIDATE_NO_LEAKAGE" -> "leakage"
          [] last = "QUERY" /\ error # "DatabaseError" -> "empty"
          [] last = "SPLIT" -> "invalid_split"
          [] OTHER -> "other"

\* C13: the kind of the error of a run that failed on a precondition belongs
\* to that precondition alone, so the kind tells which precondition failed.
C13_KindsDistinguish ==
    (stage = "failed" /\ FailedPrecondition \in Preconditions) =>
        /\ KindOf(FailedPrecondition) = error
        /\ {p \in Preconditions : KindOf(p) = error} = {FailedPrecondition}

-----------------------------------------------------------------------------
(* Claims about the fetch transport *)

Transient == {429, 500, 502, 503}

\* the call received a response to every GET, each with a transient status
AllTransient ==
    /\ responses # <<>> /\ Len(responses) = gets
    /\ \A i \in 1..Len(responses) : responses[i].status \in Transient

\* C14: the call issues at most 3 GETs; it returns 2xx responses only; when
\* every GET was answered 429/500/502/503 it fails with the HTTP error of the
\* final response.
C14_BoundedRetry ==
    /\ gets <= 3
    /\ fetch_pc = "returned" => Last(responses).status \div 100 = 2
    /\ (fetch_pc = "raised" /\ AllTransient) =>
          fetch_error = Failure("HTTPStatusError", Last(responses).status)

\* the wait a Retry-After value prescribes: delay-seconds, 60 without a header
IsSeconds(h) == h \in {"0", "7", "120"}
SecondsOf(h) == CASE h = "0" -> 0 [] h = "7" -> 7 [] h = "120" -> 120

\* C15: once a 429 response has been handled, the call has slept the wait the
\* response prescribes and is about to issue the next GET.
C15_SleepsRetryAfter ==
    (responses # <<>> /\ Last(responses).status = 429) =>
        /\ Len(slept) = Len(responses)
        /\ Last(responses).retry_after = "absent" => Last(slept) = 60
        /\ IsSeconds(Last(responses).retry_after) =>
              Last(slept) = SecondsOf(Last(responses).retry_after)
        /\ fetch_pc = "loop"

\* the step receives a response with a status of the set
Receives(set) ==
    /\ Len(responses') = Len(responses) + 1
    /\ Last(responses').status \in set

BackoffStep ==
    Receives({500, 502, 503}) =>
        /\ attempt = Len(responses) /\ gets' = gets + 1
        /\ slept' = Append(slept, 2 ^ attempt)
        /\ IF attempt < 2
           THEN fetch_pc' = "loop" /\ attempt' = attempt + 1
           ELSE fetch_pc' = "exhausted"

ExhaustedStep ==
    fetch_pc = "exhausted" =>
        /\ fetch_pc' = "raised"
        /\ fetch_error' = Failure("HTTPStatusError", Last(responses).status)
        /\ gets' = gets /\ slept' = slept

Permanent == {st \in Statuses : st \div 100 # 2} \ Transient

FailFastStep ==
    Receives(Permanent) =>
        /\ fetch_pc' = "raised"
        /\ fetch_error' = Failure("HTTPStatusError", Last(responses').status)
        /\ slept' = slept /\ gets' = gets + 1

\* C17: a response with a non-2xx status other than 429/500/502/503 makes the
\* call fail with the HTTP error of that response, without a sleep; after the
\* call has failed no GET is issued and nothing is slept.
C17_FailFast ==
    [][FailFastStep /\ (fetch_pc = "raised" => gets' = gets /\ slept' = slept)]_vars

\* a 404 (or 504) answered the second GET, after one retried response
C17_Witness ==
    /\ fetch_pc = "raised" /\ gets = 2 /\ Len(slept) = 1
    /\ Last(responses).status \in {404, 504}
    /\ fetch_error.kind = "HTTPStatusError"

\* C29: a call that has ended slept once between two GETs and at no other
\* time: its sleeps number its GETs minus one, none of them after the last GET.
C29_NoSleepAfterLastGet ==
    fetch_pc \in {"returned", "raised"} => Len(slept) = gets - 1

-----------------------------------------------------------------------------
(* Claims about the unit of work *)

\* C18: from the first statement of a call up to a successful commit, and for
\* good when the call fails, the committed table is what it was when the call
\* began; a call that fails raises the error to its caller.
C18_FailedBatchRolledBack ==
    /\ (unit_pc \in {"body", "commit", "except", "raised"}
          \/ (unit_pc = "finally" /\ unit_error # "")) => unit_table = before
    /\ unit_pc = "raised" => unit_error # "" /\ unit_result = 0 - 1

\* a call on a non-empty table failed at its second statement, after its
\* first statement had inserted a row in the transaction
C18_Witness ==
    /\ unit_pc = "raised" /\ unit_error = "DatabaseError"
    /\ Len(unit_batch) = 2 /\ done = 1
    /\ before # EmptyBag
    /\ ~Conflicts(before, RowOf(unit_batch[1]))
    /\ conn_calls = <<"getconn", "rollback", "putconn">>

Count(name) == Cardinality({i \in 1..Len(conn_calls) : conn_calls[i] = name})

\* connections the call holds
CheckedOut == Count("getconn") - Count("putconn")

-----------------------------------------------------------------------------
(* Claims about the tasks of one DAG run *)

\* the tasks one after another in the given order, each with the records and
\* the outcome it had: the tables after them
RECURSIVE Sequentially(_, _, _)
Sequentially(order, i, tables) ==
    IF i > Len(order) THEN tables
    ELSE LET s == order[i]
         IN  Sequentially(order, i + 1,
                 IF task[s] = "done"
                 THEN [tables EXCEPT ![TableOf(s)] =
                          BulkExecute(tables[TableOf(s)], records[s]).rows]
                 ELSE tables)

Orders == {o \in [1..Cardinality(Sources) -> Sources] : \A i, j \in DOMAIN o : o[i] = o[j] => i = j}

AllRested == \A s \in Sources : task[s] \in Resting \ {"idle"}

\* the source whose task takes the step
StepOf(s) == task'[s] # task[s]

\* a step of the task of s leaves the other tasks' tables, records and
\* positions alone
OwnTableOnly ==
    \A s \in Sources :
        StepOf(s) =>
            \A u \in Sources \ {s} :
                /\ table'[u] = table[u] /\ task'[u] = task[u]
                /\ records'[u] = records[u] /\ raw'[u] = raw[u] /\ inserted'[u] = inserted[u]

\* C23: every step of a task writes its own table only and touches nothing of
\* the other tasks; when the four tasks have ended, however their steps were
\* interleaved, every table holds what it holds after the tasks ran one after
\* another, in any of the 24 orders.
C23_TasksIndependent ==
    /\ [][OwnTableOnly]_vars
    /\ [](AllRested =>
            \A o \in Orders : table = Sequentially(o, 1, [s \in Sources |-> EmptyBag]))

\* the four tasks ended: three of them stored rows, the hydro task failed in
\* parse
C23_Witness ==
    /\ AllRested
    /\ Cardinality({s \in Sources : task[s] = "done" /\ table[s] # EmptyBag}) >= 3
    /\ task["bafu"] = "parse_failed"

\* the natural keys of a record list, and of the stored rows
BatchKeys(recs) == {KeyOf(RowOf(recs[i])) : i \in 1..Len(recs)}
StoredKeys(rows) == {KeyOf(r) : r \in BagToSet(rows)}

\* C21: a call that returns gives the number of distinct natural keys of its
\* record list that the table did not hold when the call began (0 when it held
\* them all), and that many rows have been added to the table.
C21_ReturnsInsertedCount ==
    unit_pc = "returned" =>
        /\ unit_result = Cardinality(BatchKeys(unit_batch) \ StoredKeys(before))
        /\ unit_result = BagCardinality(unit_table) - BagCardinality(before)

\* a call returned 1 for a list of a new key followed by a stored one
C21_Witness ==
    /\ unit_pc = "returned" /\ Len(unit_batch) = 2 /\ unit_result = 1
    /\ ~Conflicts(before, RowOf(unit_batch[1]))
    /\ Conflicts(before, RowOf(unit_batch[2]))

\* the call with an empty list returns 0 in one step that touches nothing else
EmptyCallStep ==
    (unit_pc = "call" /\ unit_batch = <<>>) =>
        /\ unit_pc' = "returned" /\ unit_result' = 0
        /\ UNCHANGED <<pool, conn_calls, unit_table, tx, done, rowcount, unit_error>>

\* C22: a call with an empty record list returns 0 at once; it creates no pool,
\* checks out no connection, and issues no statement, commit or rollback.
C22_EmptyListUntouched ==
    /\ [][EmptyCallStep]_vars
    /\ []((unit_pc # "call" /\ unit_batch = <<>>) =>
            /\ unit_pc = "returned" /\ unit_result = 0 /\ conn_calls = <<>>
            /\ done = 0 /\ unit_table = before /\ unit_error = "")

\* the first call of the process had an empty list: there is no pool
C22_Witness ==
    /\ unit_pc = "returned" /\ unit_batch = <<>> /\ unit_result = 0
    /\ pool = "none" /\ conn_calls = <<>>

-----------------------------------------------------------------------------
(* Claims about the hydro parse() *)

\* the entries that carry a timestamp and a parameter tag
Tagged(entries) ==
    {i \in 1..Len(entries) : entries[i].timestamp # Null /\ entries[i].par # ""}

\* the value of the last entry of the payload with that timestamp and tag
ValueOf(entries, ts, par) ==
    LET at == {i \in Tagged(entries) : entries[i].timestamp = ts /\ entries[i].par = par}
    IN  IF at = {} THEN Null
        ELSE entries[CHOOSE i \in at : \A j \in at : j <= i].val

\* C24: the call returns, for a payload in any order, one record for every
\* distinct timestamp of the entries that carry a timestamp and a tag, with the
\* timestamp's flow value as discharge_m3s and its height value as level_masl,
\* the records ascending by time; an empty payload gives the empty list.
C24_MergedSorted ==
    parse_pc # "call" =>
        /\ parse_pc = "returned"
        /\ {parsed[k].time : k \in 1..Len(parsed)} =
              {Aware(parse_raw[i].timestamp, 0) : i \in Tagged(parse_raw)}
        /\ \A k \in 1..Len(parsed) :
              /\ parsed[k].discharge_m3s = ValueOf(parse_raw, parsed[k].time.wall, "flow")
              /\ parsed[k].level_masl = ValueOf(parse_raw, parsed[k].time.wall, "height")
              /\ parsed[k].station_id = "2018"
        /\ \A j, k \in 1..Len(parsed) : j < k => parsed[j].time.wall < parsed[k].time.wall
        /\ parse_raw = <<>> => parsed = <<>>

\* four entries, the later timestamp first: two merged records, the earlier first
C24_Witness ==
    /\ parse_pc = "returned" /\ Len(parse_raw) = 4 /\ Len(parsed) = 2
    /\ parse_raw[1].timestamp = 1 /\ parse_raw[4].timestamp = 0
    /\ parsed[1] = [time |-> Aware(0, 0), station_id |-> "2018",
                     discharge_m3s |-> 2, level_masl |-> 1]
    /\ parsed[2].discharge_m3s # Null /\ parsed[2].level_masl # Null

-----------------------------------------------------------------------------
(* Claims about the price parse() *)

\* the minutes of the resolution tokens, 60 for any other token and for none
MinutesOf(token) ==
    LET known == [PT15M |-> 15, PT30M |-> 30, PT60M |-> 60, P1D |-> 1440]
    IN  IF token \in DOMAIN known THEN known[token] ELSE 60

Complete(point) == point.position # Null /\ point.price # Null

\* the record of a point of a Period of a TimeSeries
RecordOfPoint(ts, period, point) ==
    [time |-> Aware(period.start + (point.position - 1) * MinutesOf(period.resolution), 0),
     price_eur_mwh |-> point.price,
     currency |-> IF ts.currency = "" THEN "EUR" ELSE ts.currency,
     domain |-> "10YCH-SWISSGRIDZ"]

\* the (TimeSeries, Period, Point) positions of the complete points of the
\* Periods that have a start, over the Periods in the set of positions
CompletePoints(doc, which(_)) ==
    UNION {UNION {{<<i, p, j>> : j \in {n \in 1..Len(doc[i].periods[p].points) :
                                            Complete(doc[i].periods[p].points[n])}} :
                  p \in {q \in which(doc[i]) : doc[i].periods[q].start # Null}} :
           i \in 1..Len(doc)}

FirstPeriod(ts) == IF ts.periods = <<>> THEN {} ELSE {1}
EveryPeriod(ts) == 1..Len(ts.periods)

\* C25: every record the call returns is the record of a complete point, its
\* time being interval_start + (position - 1) * minutes with positions counted
\* from 1 and minutes 15, 30, 60 or 1440 by the resolution token, 60 for an
\* unknown or absent token, its currency EUR when the TimeSeries names none;
\* and every complete point of a parsed Period has its record.
C25_PointTimestamps ==
    parse_pc = "returned" =>
        /\ \A k \in 1..Len(parsed) :
              \E c \in CompletePoints(parse_raw, FirstPeriod) :
                  parsed[k] = RecordOfPoint(parse_raw[c[1]], parse_raw[c[1]].periods[c[2]],
                                            parse_raw[c[1]].periods[c[2]].points[c[3]])
        /\ \A c \in CompletePoints(parse_raw, FirstPeriod) :
              \E k \in 1..Len(parsed) :
                  parsed[k] = RecordOfPoint(parse_raw[c[1]], parse_raw[c[1]].periods[c[2]],
                                            parse_raw[c[1]].periods[c[2]].points[c[3]])

\* a daily Period gave a record one day after its start, and a TimeSeries
\* without currency gave records in EUR
C25_Witness ==
    /\ parse_pc = "returned"
    /\ \E k \in 1..Len(parsed) : parsed[k].time = Aware(1440, 0) /\ parsed[k].currency = "CHF"
    /\ \E k \in 1..Len(parsed) : parsed[k].currency = "EUR"

\* C26: the call returns as many records as the document has complete points
\* in Periods with a start, over every Period of every TimeSeries.
C26_EveryPeriodParsed ==
    parse_pc = "returned" =>
        Len(parsed) = Cardinality(CompletePoints(parse_raw, EveryPeriod))

-----------------------------------------------------------------------------
(* Claims about validate_ascending_timestamps *)

\* C28: the call raises ValueError exactly when some adjacent pair of the time
\* column has time[i] >= time[i+1], equal timestamps included.
C28_RaisesUnlessStrict ==
    parse_pc # "call" =>
        ((parse_pc = "raised" /\ parsed = "ValueError")
            <=> \E i \in 1..(Len(parse_raw) - 1) : parse_raw[i] >= parse_raw[i + 1])

-----------------------------------------------------------------------------
(* Claims about the pool *)

\* C30: at most one pool instance is live at any time, and a connection that
\* was checked out is put back to the pool instance it came from, whatever
\* the threads do and whenever the pool is closed and recreated.
C30_OnePoolSameInstance ==
    /\ Cardinality(Live) <= 1
    /\ \A t \in Threads :
          (thread[t].pc \in {"done", "raised"} /\ thread[t].origin # 0) =>
              thread[t].back = thread[t].origin

\* C20: at most 10 connections are checked out at any time, and no checkout
\* fails because 10 are out: a unit that asks then waits for a connection.
C20_BoundedBlockingCheckout ==
    /\ Cardinality(InUse) <= 10
    /\ \A u \in Units : holder[u] # "refused"

====
